---- MODULE Spec2Model ----
(***************************************************************************)
(* State-machine model of src/src/components/GanttChart.tsx: the task      *)
(* collection, the add form, the edit draft and the timeline layout        *)
(* functions of the GanttChart component.                                   *)
(*                                                                         *)
(* Time.  A Date is its getTime() value, an integer number of clock ticks. *)
(* DayMs ticks make one day (the code's 1000 * 60 * 60 * 24), so a Date    *)
(* carries a time of day and Math.ceil / Math.floor of a day quotient are  *)
(* not the identity.  The clock `now` is what Date.now() and new Date()    *)
(* read; it never runs backwards and need not advance between two reads.   *)
(*                                                                         *)
(* Numbers.  Percentages are exact rationals [num, den]; NaN is the        *)
(* rational 0/0.  Floating-point rounding is not modelled.                 *)
(*                                                                         *)
(* Events.  Every handler runs to completion (React state updates of one   *)
(* handler are applied together before the next event).  The handlers are  *)
(* modelled with the guards of their code.  What the rendering offers     *)
(* (delete and edit buttons on rows not in edit mode, draft inputs on a    *)
(* row in edit mode, minDate of the end pickers) guards the events.  Spec  *)
(* is a session of text input, SpecDates a session of date picking,        *)
(* SpecAll has every handler.                                              *)
(***************************************************************************)
EXTENDS Integers, Sequences, FiniteSets, TLC

\* ---------------------------------------------------------------- bounds
\* Clock ticks per day (stands for the 86 400 000 ms of a day).
DayMs == 2
\* Largest clock reading (Date.now(), new Date()).
MaxClock == 1
\* Largest Date the date pickers offer.
MaxDate == 2
\* Largest number of tasks the collection is grown to.
MaxTasks == 2

\* Clock readings, and the Dates a DatePicker hands to onChange.
Times == 0..MaxClock
DateInputs == 0..MaxDate

\* ------------------------------------------------------- input alphabets
\* Text typed into the name inputs: empty, whitespace only, padded text.
NameInputs == { <<>>, <<" ">>, <<" ", "a">> }
\* Text typed into the predecessor inputs.
PredecessorInputs == { "", "p" }
\* The value of a field that is not set (JavaScript undefined / null).
undefined == "undefined"
\* null in a string-typed slot; no toString result equals it.
null == << "null" >>

\* The phase values of the <select>, in the order of the phases table.
phases == << "initiating", "planning", "executing", "monitoring", "closing" >>
\* The options the modelled user picks among.
PhaseInputs == { phases[1], phases[2] }

VARIABLES tasks, formData, editingTask, editData, now

vars == << tasks, formData, editingTask, editData, now >>

\* ------------------------------------------------------------- helpers
Abs(x) == IF x < 0 THEN -x ELSE x

\* Math.ceil(a / b) and Math.floor(a / b) for b > 0.
Ceil(a, b) == -((-a) \div b)
Floor(a, b) == a \div b

Whitespace == { " " }

RECURSIVE trimStart(_)
trimStart(s) ==
    IF s # <<>> /\ Head(s) \in Whitespace THEN trimStart(Tail(s)) ELSE s

RECURSIVE trimEnd(_)
trimEnd(s) ==
    IF s # <<>> /\ s[Len(s)] \in Whitespace
    THEN trimEnd(SubSeq(s, 1, Len(s) - 1))
    ELSE s

\* String.prototype.trim
trim(s) == trimEnd(trimStart(s))

Digits == << "0", "1", "2", "3", "4", "5", "6", "7", "8", "9" >>

\* Number.prototype.toString of a non-negative integer: its decimal digits.
RECURSIVE toString(_)
toString(n) ==
    IF n < 10 THEN << Digits[n + 1] >>
    ELSE Append(toString(n \div 10), Digits[(n % 10) + 1])

\* Partial<Task>: a record holding only the fields that were set.
EmptyDraft == [k \in {} |-> undefined]

\* { ...d, [k]: v }
SetField(d, k, v) == [x \in DOMAIN d \cup {k} |-> IF x = k THEN v ELSE d[x]]

\* { ...a, ...b }
Spread(a, b) ==
    [x \in DOMAIN a \cup DOMAIN b |-> IF x \in DOMAIN b THEN b[x] ELSE a[x]]

\* The local calendar day of a Date (the day a DatePicker compares by).
DayOf(d) == Floor(d, DayMs)

\* ------------------------------------------------------ pure functions
calculateDuration(startDate, endDate) ==
    LET diffTime == Abs(endDate - startDate)
    IN  Ceil(diffTime, DayMs) + 1

\* The form state set by addTask and by the initial useState: two reads of
\* the clock, t1 then t2.
BlankForm(t1, t2) ==
    [ name |-> <<>>, phase |-> "initiating", startDate |-> t1,
      endDate |-> t2, predecessor |-> "" ]

SeqMin(s) == CHOOSE x \in { s[i] : i \in DOMAIN s } :
                \A y \in { s[i] : i \in DOMAIN s } : x <= y
SeqMax(s) == CHOOSE x \in { s[i] : i \in DOMAIN s } :
                \A y \in { s[i] : i \in DOMAIN s } : x >= y

\* tasks.flatMap(task => [task.startDate, task.endDate])
RECURSIVE flatMapDates(_)
flatMapDates(ts) ==
    IF ts = <<>> THEN <<>>
    ELSE << Head(ts).startDate, Head(ts).endDate >> \o flatMapDates(Tail(ts))

\* getTimelineData taking the axis end from the end dates only.
getTimelineData_endDatesOnly(ts, today) ==
    IF Len(ts) = 0
    THEN [ startDate |-> today, endDate |-> today, totalDays |-> 1 ]
    ELSE LET dates == flatMapDates(ts)
             minDate == SeqMin(dates)
             maxDate == SeqMax([ i \in DOMAIN ts |-> ts[i].endDate ])
             totalDays == Ceil(maxDate - minDate, DayMs) + 1
         IN  [ startDate |-> minDate, endDate |-> maxDate,
               totalDays |-> totalDays ]

getTimelineData(ts, today) ==
    IF Len(ts) = 0
    THEN [ startDate |-> today, endDate |-> today, totalDays |-> 1 ]
    ELSE LET dates == flatMapDates(ts)
             minDate == SeqMin(dates)
             maxDate == SeqMax(dates)
             totalDays == Ceil(maxDate - minDate, DayMs) + 1
         IN  [ startDate |-> minDate, endDate |-> maxDate,
               totalDays |-> totalDays ]

\* left and width in percent, as rationals over the same denominator.
getTaskPosition(task, timelineStart, totalDays) ==
    LET taskStart == Floor(task.startDate - timelineStart, DayMs)
    IN  [ left  |-> [ num |-> taskStart * 100, den |-> totalDays ],
          width |-> [ num |-> task.duration * 100, den |-> totalDays ] ]

NaN == [ num |-> 0, den |-> 0 ]
Rat(n) == [ num |-> n, den |-> 1 ]
IsNaN(r) == r.den = 0 /\ r.num = 0
\* r <= q for rationals with positive denominators; false when either is NaN.
RatLeq(r, q) == r.den > 0 /\ q.den > 0 /\ r.num * q.den <= q.num * r.den

\* (elapsed / totalDuration) * 100 in IEEE arithmetic, then
\* Math.min(100, Math.max(0, .)): 0/0 is NaN and both Math.max and Math.min
\* return NaN for a NaN argument; x/0 is +-Infinity and is clamped.
ClampedRatio(elapsed, totalDuration) ==
    IF totalDuration = 0
    THEN IF elapsed = 0 THEN NaN
         ELSE IF elapsed > 0 THEN Rat(100) ELSE Rat(0)
    ELSE LET n == IF totalDuration < 0 THEN -elapsed ELSE elapsed
             d == Abs(totalDuration)
         IN  IF n <= 0 THEN Rat(0)
             ELSE IF n >= d THEN Rat(100)
             ELSE [ num |-> n * 100, den |-> d ]

getProgressPercentage(task, today) ==
    IF today < task.startDate THEN Rat(0)
    ELSE IF today > task.endDate THEN Rat(100)
    ELSE LET totalDuration == task.endDate - task.startDate
             elapsed == today - task.startDate
         IN  ClampedRatio(elapsed, totalDuration)

\* ---------------------------------------------------------------- state
\* The component mounts at clock reading 0; useState reads the clock twice
\* for the form's dates (lines 37-38).
Init ==
    /\ tasks = <<>>
    /\ \E t2 \in Times :
          /\ formData = BlankForm(0, t2)
          /\ now = t2
    /\ editingTask = null
    /\ editData = EmptyDraft

\* The clock advances between two events.
Tick ==
    /\ now < MaxClock
    /\ now' = now + 1
    /\ UNCHANGED << tasks, formData, editingTask, editData >>

\* ------------------------------------------------------- the add form
\* onChange of the form's name input (line 180)
SetFormName(v) ==
    /\ formData' = [formData EXCEPT !.name = v]
    /\ UNCHANGED << tasks, editingTask, editData, now >>

\* onChange of the form's phase select (line 190)
SetFormPhase(v) ==
    /\ formData' = [formData EXCEPT !.phase = v]
    /\ UNCHANGED << tasks, editingTask, editData, now >>

\* onChange of the form's start DatePicker (line 203): any date.
SetFormStartDate(date) ==
    /\ formData' = [formData EXCEPT !.startDate = date]
    /\ UNCHANGED << tasks, editingTask, editData, now >>

\* onChange of the form's end DatePicker (lines 211-215): the picker offers
\* no day before minDate = formData.startDate.
SetFormEndDate(date) ==
    /\ DayOf(date) >= DayOf(formData.startDate)
    /\ formData' = [formData EXCEPT !.endDate = date]
    /\ UNCHANGED << tasks, editingTask, editData, now >>

\* onChange of the form's predecessor input (line 225)
SetFormPredecessor(v) ==
    /\ formData' = [formData EXCEPT !.predecessor = v]
    /\ UNCHANGED << tasks, editingTask, editData, now >>

\* NewTask with the phase left at the form's default.
NewTask_defaultPhase(form, t) ==
    [ id |-> toString(t),
      name |-> form.name,
      phase |-> "initiating",
      startDate |-> form.startDate,
      endDate |-> form.endDate,
      predecessor |-> IF form.predecessor # "" THEN form.predecessor
                      ELSE undefined,
      duration |-> calculateDuration(form.startDate, form.endDate) ]

\* The task addTask builds from the form at clock reading t.
NewTask(form, t) ==
    [ id |-> toString(t),
      name |-> form.name,
      phase |-> form.phase,
      startDate |-> form.startDate,
      endDate |-> form.endDate,
      predecessor |-> IF form.predecessor # "" THEN form.predecessor
                      ELSE undefined,
      duration |-> calculateDuration(form.startDate, form.endDate) ]

addTask ==
    IF trim(formData.name) = <<>>
    THEN UNCHANGED vars
    ELSE /\ Len(tasks) < MaxTasks
         /\ tasks' = Append(tasks, NewTask(formData, now))
         /\ \E t1 \in now..MaxClock : \E t2 \in t1..MaxClock :
               /\ formData' = BlankForm(t1, t2)
               /\ now' = t2
         /\ UNCHANGED << editingTask, editData >>

\* ------------------------------------------------------------- delete
\* deleteTask removing by position of the first match and everything after.
deleteTask_truncates(id) ==
    /\ tasks' = IF \E i \in DOMAIN tasks : tasks[i].id = id
                THEN SubSeq(tasks, 1,
                        (CHOOSE i \in DOMAIN tasks :
                            /\ tasks[i].id = id
                            /\ \A j \in 1..(i - 1) : tasks[j].id # id) - 1)
                ELSE tasks
    /\ UNCHANGED << formData, editingTask, editData, now >>

deleteTask(id) ==
    /\ tasks' = SelectSeq(tasks, LAMBDA task : task.id # id)
    /\ UNCHANGED << formData, editingTask, editData, now >>

\* ---------------------------------------------------------- edit draft
\* startEditing spreading the open draft over the new seed, so that fields
\* of the draft being replaced survive.
startEditing_keepsOldDraft(task) ==
    /\ editingTask' = task.id
    /\ editData' = [ k \in { "name", "startDate", "endDate", "predecessor" } |->
                       IF k \in DOMAIN editData THEN editData[k]
                       ELSE IF k = "predecessor"
                            THEN (IF task.predecessor \notin {undefined, ""}
                                  THEN task.predecessor ELSE "")
                            ELSE task[k] ]
    /\ UNCHANGED << tasks, formData, now >>

startEditing(task) ==
    /\ editingTask' = task.id
    /\ editData' = [ name |-> task.name,
                     startDate |-> task.startDate,
                     endDate |-> task.endDate,
                     predecessor |-> IF task.predecessor \notin {undefined, ""}
                                     THEN task.predecessor ELSE "" ]
    /\ UNCHANGED << tasks, formData, now >>

\* The row of `task` is rendered in edit mode (lines 280, 297, 310, 324).
InEditMode(task) == editingTask = task.id

\* onChange of the row's name input (line 284)
SetEditName(v) ==
    /\ \E i \in DOMAIN tasks : InEditMode(tasks[i])
    /\ editData' = SetField(editData, "name", v)
    /\ UNCHANGED << tasks, formData, editingTask, now >>

\* onChange of the row's start DatePicker (line 300)
SetEditStartDate(date) ==
    /\ \E i \in DOMAIN tasks : InEditMode(tasks[i])
    /\ editData' = SetField(editData, "startDate", date)
    /\ UNCHANGED << tasks, formData, editingTask, now >>

\* onChange of the row's end DatePicker (lines 311-315), bounded below by
\* minDate = editData.startDate || task.startDate (a Date is always truthy).
SetEditEndDate(date) ==
    /\ \E i \in DOMAIN tasks :
          /\ InEditMode(tasks[i])
          /\ LET minDate == IF "startDate" \in DOMAIN editData
                            THEN editData.startDate
                            ELSE tasks[i].startDate
             IN  DayOf(date) >= DayOf(minDate)
    /\ editData' = SetField(editData, "endDate", date)
    /\ UNCHANGED << tasks, formData, editingTask, now >>

\* onChange of the row's predecessor input (line 328)
SetEditPredecessor(v) ==
    /\ \E i \in DOMAIN tasks : InEditMode(tasks[i])
    /\ editData' = SetField(editData, "predecessor", v)
    /\ UNCHANGED << tasks, formData, editingTask, now >>

\* updatedTask with the spread in the other order: the task's fields win.
updatedTask_taskWins(task, draft) ==
    [ k \in DOMAIN task |-> task[k] ]

\* The map callback of saveEdit (lines 89-101).
updatedTask(task, draft) ==
    [ Spread(task, draft) EXCEPT !.duration =
        IF "startDate" \in DOMAIN draft /\ "endDate" \in DOMAIN draft
        THEN calculateDuration(draft.startDate, draft.endDate)
        ELSE task.duration ]

saveEdit ==
    IF editingTask = null \/ editingTask = <<>>
    THEN UNCHANGED vars
    ELSE /\ tasks' = [ i \in DOMAIN tasks |->
                        IF tasks[i].id = editingTask
                        THEN updatedTask(tasks[i], editData)
                        ELSE tasks[i] ]
         /\ editingTask' = null
         /\ editData' = EmptyDraft
         /\ UNCHANGED << formData, now >>

\* cancelEdit that commits the draft like saveEdit.
cancelEdit_commits == saveEdit

cancelEdit ==
    /\ editingTask' = null
    /\ editData' = EmptyDraft
    /\ UNCHANGED << tasks, formData, now >>

\* ----------------------------------------------------------------- next
\* Ids a delete can be asked for: every clock reading, present or not.
IdInputs == { toString(t) : t \in Times }

\* The handlers every session uses.  The delete and edit buttons are
\* rendered only on rows that are not in edit mode (lines 337-367).
Core ==
    \/ Tick
    \/ addTask
    \/ \E id \in IdInputs : id # editingTask /\ deleteTask(id)
    \/ \E i \in DOMAIN tasks : ~InEditMode(tasks[i]) /\ startEditing(tasks[i])
    \/ saveEdit
    \/ cancelEdit

\* A session in which the user types into the text inputs and uses the
\* phase select, and leaves the date pickers alone: every Date is a clock
\* reading.
Next ==
    \/ Core
    \/ \E v \in NameInputs : SetFormName(v)
    \/ \E v \in PhaseInputs : SetFormPhase(v)
    \/ \E v \in PredecessorInputs : SetFormPredecessor(v)
    \/ \E v \in NameInputs : SetEditName(v)
    \/ \E v \in PredecessorInputs : SetEditPredecessor(v)

Spec == Init /\ [][Next]_vars

\* A session in which the user uses the date pickers of the form and of the
\* row in edit mode and the row's predecessor input, and types one name.
NextDates ==
    \/ Core
    \/ SetFormName(<< " ", "a" >>)
    \/ \E d \in DateInputs : SetFormStartDate(d)
    \/ \E d \in DateInputs : SetFormEndDate(d)
    \/ \E d \in DateInputs : SetEditStartDate(d)
    \/ \E d \in DateInputs : SetEditEndDate(d)
    \/ \E v \in PredecessorInputs : SetEditPredecessor(v)

SpecDates == Init /\ [][NextDates]_vars

\* Every handler of the component.
NextAll == Next \/ NextDates

SpecAll == Init /\ [][NextAll]_vars

\* =================================================================
\* Properties
\* =================================================================

\* ---- C1 ---------------------------------------------------------
\* C1: in every reachable state no two tasks of the collection share an
\* id (ids are the clock reading taken by addTask).
C1_IdsUnique ==
    \A i, j \in DOMAIN tasks : i # j => tasks[i].id # tasks[j].id

\* ---- C2 ---------------------------------------------------------
\* C2: in every reachable state every task's name is non-empty after
\* trimming whitespace, also after an edit session was saved.
C2_NamesNonEmpty ==
    \A i \in DOMAIN tasks : trim(tasks[i].name) # <<>>

\* ---- C3 ---------------------------------------------------------
\* The bar of tasks[i] on the axis getTimelineData computes over the whole
\* collection, as the timeline view renders it (lines 153, 390).
BarOf(i) ==
    LET axis == getTimelineData(tasks, now)
    IN  getTaskPosition(tasks[i], axis.startDate, axis.totalDays)

\* C3: for every task of the collection, left >= 0 and left + width <= 100
\* on the axis computed over the whole collection.
C3_BarWithinAxis ==
    \A i \in DOMAIN tasks :
        LET bar == BarOf(i)
        IN  /\ bar.left.den > 0
            /\ bar.left.num >= 0
            /\ bar.left.num + bar.width.num <= 100 * bar.left.den

\* ---- C4 ---------------------------------------------------------
\* n = ceil(d / DayMs) for d >= 0, stated without the model's Ceil.
IsCeilDays(n, d) == n >= 0 /\ n * DayMs >= d /\ (n - 1) * DayMs < d

\* The cached duration of every task is calculateDuration of the dates the
\* task stores, whichever handler stored them.
DurationCached ==
    \A i \in DOMAIN tasks :
        LET t == tasks[i]
        IN  /\ IsCeilDays(t.duration - 1, Abs(t.endDate - t.startDate))
            /\ t.duration = calculateDuration(t.endDate, t.startDate)
            /\ t.duration >= 1
            /\ (t.startDate = t.endDate => t.duration = 1)

\* C4: in every reachable state each task's cached duration is
\* ceil(|endDate - startDate| in days) + 1 of its stored dates, is the same
\* for the two dates swapped, is >= 1, and is exactly 1 when start and end
\* are the same day.
C4_DurationInclusiveDays ==
    /\ DurationCached
    /\ \A i \in DOMAIN tasks :
          DayOf(tasks[i].startDate) = DayOf(tasks[i].endDate)
              => tasks[i].duration = 1

\* ---- C5 ---------------------------------------------------------
\* The instants at which progress is read.
ProgressInstants == 0..(MaxDate + 1)

Complete == Rat(100)

\* C5: for every task and every instant the progress percentage is a
\* number within 0..100, is 0 before the start, 100 after the end, does not
\* decrease as the instant advances, and for start = end is 100 at every
\* instant from the start on.
C5_ProgressDefinedMonotone ==
    \A i \in DOMAIN tasks : \A today \in ProgressInstants :
        LET t == tasks[i]
            p == getProgressPercentage(t, today)
        IN  /\ ~IsNaN(p)
            /\ RatLeq(Rat(0), p) /\ RatLeq(p, Complete)
            /\ (today < t.startDate => p = Rat(0))
            /\ (today > t.endDate => p = Complete)
            /\ \A later \in ProgressInstants :
                  later >= today =>
                      RatLeq(p, getProgressPercentage(t, later))
            /\ (t.startDate = t.endDate /\ today >= t.startDate
                    => p = Complete)

\* ---- C6 ---------------------------------------------------------
\* A step of the edit session that is not a commit: opening a draft,
\* updating a draft field, cancelling.
DraftStep ==
    \/ \E i \in DOMAIN tasks : startEditing(tasks[i])
    \/ \E v \in NameInputs : SetEditName(v)
    \/ \E d \in DateInputs : SetEditStartDate(d)
    \/ \E d \in DateInputs : SetEditEndDate(d)
    \/ \E v \in PredecessorInputs : SetEditPredecessor(v)
    \/ cancelEdit

\* C6: startEditing, the draft field updates and cancelEdit leave the task
\* collection as it was (every task, field for field, in the same order),
\* and after cancelEdit no draft is active; cancelEdit with no active draft
\* changes nothing.
C6_CancelKeepsTasks ==
    [][ /\ DraftStep => tasks' = tasks
        /\ cancelEdit => /\ editingTask' = null
                         /\ editData' = EmptyDraft
                         /\ (editingTask = null => UNCHANGED vars) ]_vars

\* A draft is active on a task and holds a name and a predecessor the task
\* does not have: what cancelEdit discards.
C6_Witness ==
    \E i \in DOMAIN tasks :
        /\ editingTask = tasks[i].id
        /\ editData.name # tasks[i].name
        /\ editData.predecessor = "p"
        /\ tasks[i].predecessor = undefined

\* ---- C7 ---------------------------------------------------------
DraftFields == { "name", "startDate", "endDate", "predecessor" }

\* What saveEdit leaves behind for the task at position i.
C7_Committed(i) ==
    LET old == tasks[i]
        new == tasks'[i]
    IN  IF old.id # editingTask
        THEN new = old
        ELSE /\ DOMAIN editData = DraftFields
             /\ new.name = editData.name
             /\ new.startDate = editData.startDate
             /\ new.endDate = editData.endDate
             /\ new.predecessor = editData.predecessor
             /\ new.id = old.id
             /\ new.phase = old.phase
             /\ ( /\ editData.name = old.name
                  /\ editData.startDate = old.startDate
                  /\ editData.endDate = old.endDate
                  => new.duration = old.duration )

\* C7: saveEdit with an active draft gives the task with the edited id the
\* draft's name, dates and predecessor, keeps its id, phase and position,
\* keeps every other task, keeps the duration when only the predecessor
\* differs, and clears the draft; with no active draft it changes nothing.
C7_SaveChangesOnlyEdited ==
    [][ saveEdit =>
          IF editingTask = null
          THEN UNCHANGED << tasks, editingTask, editData >>
          ELSE /\ Len(tasks') = Len(tasks)
               /\ \A i \in DOMAIN tasks : C7_Committed(i)
               /\ editingTask' = null
               /\ editData' = EmptyDraft ]_vars

\* A committed edit is visible: no draft is active, one task carries a
\* predecessor only a draft can give it and reversed dates, the other task
\* is as addTask built it.
C7_Witness ==
    /\ editingTask = null
    /\ Len(tasks) = 2
    /\ \E i, j \in DOMAIN tasks :
          /\ tasks[i].predecessor = "p"
          /\ tasks[i].startDate > tasks[i].endDate
          /\ tasks[j].predecessor = undefined
          /\ tasks[j].id # tasks[i].id

\* ---- C8 ---------------------------------------------------------
\* C8: addTask with an empty or whitespace-only name leaves the collection
\* unchanged; with any other name it appends exactly one task carrying the
\* form's name, phase, start and end dates and leaves the existing tasks
\* and their order unchanged.
C8_AddAppendsOrIgnores ==
    [][ addTask =>
          IF \A k \in DOMAIN formData.name : formData.name[k] = " "
          THEN tasks' = tasks
          ELSE /\ Len(tasks') = Len(tasks) + 1
               /\ \A i \in DOMAIN tasks : tasks'[i] = tasks[i]
               /\ LET new == tasks'[Len(tasks')]
                  IN  /\ new.name = formData.name
                      /\ new.phase = formData.phase
                      /\ new.startDate = formData.startDate
                      /\ new.endDate = formData.endDate ]_vars

\* A second task was appended with a phase the user selected, behind a
\* first task, and the form is blank again.
C8_Witness ==
    /\ Len(tasks) = 2
    /\ tasks[2].phase = "planning"
    /\ tasks[1].phase = "initiating"
    /\ tasks[2].name = << " ", "a" >>
    /\ formData.name = <<>>

\* ---- C9 ---------------------------------------------------------
\* The tasks of ts whose id is not id, in their order.
RECURSIVE Remaining(_, _)
Remaining(ts, id) ==
    IF ts = <<>> THEN <<>>
    ELSE IF Head(ts).id = id THEN Remaining(Tail(ts), id)
    ELSE << Head(ts) >> \o Remaining(Tail(ts), id)

\* C9: deleteTask(id) with an id no task has leaves the collection
\* unchanged; with an id present it removes the tasks with that id and
\* leaves the remaining tasks unchanged and in their order.
C9_DeleteRemovesOnlyId ==
    [][ \A id \in IdInputs :
          deleteTask(id) =>
              IF \A i \in DOMAIN tasks : tasks[i].id # id
              THEN tasks' = tasks
              ELSE /\ tasks' = Remaining(tasks, id)
                   /\ Len(tasks') < Len(tasks)
                   /\ \A i \in DOMAIN tasks' : tasks'[i].id # id ]_vars

\* A delete has acted: the collection is empty although addTask has run
\* (only addTask moves the form's start date off the mount reading 0).
C9_Witness ==
    /\ tasks = <<>>
    /\ formData.startDate > 0

\* ---- C10 --------------------------------------------------------
\* A task as addTask builds it for whole days first..last.
DayTask(first, last) ==
    NewTask([ BlankForm(first * DayMs, last * DayMs)
                EXCEPT !.name = << "a" >> ], 0)

ScenarioA == DayTask(1, 5)
ScenarioB == DayTask(3, 10)

\* The scenario of the spec: tasks over days 1..5 and 3..10 give an axis of
\* days 1..10, totalDays 10, left/width 0/50 and 20/80.
C10_Scenario ==
    LET ts == << ScenarioA, ScenarioB >>
        axis == getTimelineData(ts, now)
        a == getTaskPosition(ScenarioA, axis.startDate, axis.totalDays)
        b == getTaskPosition(ScenarioB, axis.startDate, axis.totalDays)
    IN  /\ axis.startDate = 1 * DayMs
        /\ axis.endDate = 10 * DayMs
        /\ axis.totalDays = 10
        /\ a.left.num = 0 * a.left.den
        /\ a.width.num = 50 * a.width.den
        /\ b.left.num = 20 * b.left.den
        /\ b.width.num = 80 * b.width.den

\* C10: getTimelineData gives totalDays 1 for the empty collection; for a
\* non-empty one its start is the minimum and its end the maximum over all
\* start and end dates and totalDays = ceil((end - start) in days) + 1 >= 1;
\* the spec's two-task scenario gives the stated axis and bars.
C10_AxisSpansAllDates ==
    LET axis == getTimelineData(tasks, now)
        all == { tasks[i].startDate : i \in DOMAIN tasks }
                 \cup { tasks[i].endDate : i \in DOMAIN tasks }
    IN  /\ tasks = <<>> => axis.totalDays = 1
        /\ tasks # <<>> =>
              /\ axis.startDate \in all
              /\ axis.endDate \in all
              /\ \A d \in all : axis.startDate <= d /\ d <= axis.endDate
              /\ IsCeilDays(axis.totalDays - 1,
                            axis.endDate - axis.startDate)
        /\ axis.totalDays >= 1
        /\ C10_Scenario

\* Two tasks, the axis starting at an end date of one and ending at the
\* start date of the other, more than a day apart.
C10_Witness ==
    /\ Len(tasks) = 2
    /\ \E i, j \in DOMAIN tasks :
          /\ i # j
          /\ getTimelineData(tasks, now).startDate = tasks[i].endDate
          /\ getTimelineData(tasks, now).endDate = tasks[j].startDate
          /\ tasks[i].endDate < tasks[i].startDate
          /\ tasks[j].startDate > tasks[j].endDate
          /\ getTimelineData(tasks, now).totalDays = 2

\* ---- C11 --------------------------------------------------------
\* The draft startEditing opens on task b: copies of its editable fields,
\* the empty string standing for an absent predecessor.
SeedOf(b) ==
    [ name |-> b.name, startDate |-> b.startDate, endDate |-> b.endDate,
      predecessor |-> IF b.predecessor = undefined THEN "" ELSE b.predecessor ]

\* Either no draft is active, or the one draft holds the four editable
\* fields and belongs to a task of the collection.
OneDraft ==
    IF editingTask = null
    THEN editData = EmptyDraft
    ELSE /\ DOMAIN editData = DraftFields
         /\ \E i \in DOMAIN tasks : tasks[i].id = editingTask

\* C11: at most one draft is active; startEditing(B), also while a draft
\* for another task A is active, leaves every task unmodified and replaces
\* the draft by one seeded from B alone, and a saveEdit changes only tasks
\* with the id of the draft then active, giving them that draft's fields:
\* nothing of a replaced draft reaches a task.
C11_StartEditingReplacesDraft ==
    [][ /\ OneDraft
        /\ \A i \in DOMAIN tasks :
              startEditing(tasks[i]) =>
                  /\ tasks' = tasks
                  /\ editingTask' = tasks[i].id
                  /\ editData' = SeedOf(tasks[i])
        /\ saveEdit =>
              \A i \in DOMAIN tasks :
                  tasks'[i] # tasks[i] =>
                      /\ tasks[i].id = editingTask
                      /\ \A k \in DraftFields : tasks'[i][k] = editData[k]
      ]_vars

\* A draft for task A is active and holds a name and a predecessor A does
\* not have, and a task B with another id and other fields is there to be
\* edited next: what startEditing(B) replaces.
C11_Witness ==
    \E a, b \in DOMAIN tasks :
        /\ editingTask = tasks[a].id
        /\ tasks[b].id # tasks[a].id
        /\ editData.name # tasks[a].name
        /\ editData.name # tasks[b].name
        /\ editData.predecessor = "p"
        /\ tasks[a].predecessor = undefined
        /\ tasks[b].predecessor = undefined

====
